---- MODULE Spec2Model ----
(***************************************************************************)
(* Model of o3-search-mcp (src/index.ts): the o3-search tool handler and   *)
(* the process lifecycle of main(): transport connect, the maximum-runtime *)
(* timer, the shutdown routine and the events that invoke it.              *)
(*                                                                         *)
(* JavaScript runs every callback to completion, so one action is one      *)
(* callback (or one continuation of an async function between two awaits). *)
(***************************************************************************)
EXTENDS Integers, Sequences, FiniteSets, TLC

VARIABLES
  mainPc,      \* main(): "connecting" (awaiting server.connect), "registered", "failed"
  timer,       \* timeoutHandle: "unset", "armed", "cleared", "fired"
  listeners,   \* the process / stdin events that have a listener
  shutdowns,   \* the invocations of shutdown(), in call order
  exited,      \* process.exit was called
  exitCode,    \* its argument (meaningful when exited)
  exitedBy,    \* index in shutdowns of the invocation that exited, 0 for main().catch
  calls        \* the invocations of the o3-search handler, in dispatch order

vars == <<mainPc, timer, listeners, shutdowns, exited, exitCode, exitedBy, calls>>

lifecycleVars == <<mainPc, timer, listeners, shutdowns, exited, exitCode, exitedBy>>

(***************************************************************************)
(* Bounds of the model.                                                    *)
(***************************************************************************)
MaxCalls == 2

MaxShutdowns == 2

(***************************************************************************)
(* Values the environment supplies.                                        *)
(***************************************************************************)
Inputs == {"What is the capital of France?"}

\* response.output_text as the upstream client can deliver it: a missing
\* property (undefined) or a string, the empty string included.
NoText == [present |-> FALSE, text |-> ""]

Text(t) == [present |-> TRUE, text |-> t]

OutputTexts == {NoText, Text(""), Text("Paris.")}

\* Values a rejected upstream call can throw: isError is `instanceof Error`,
\* hasMessage says whether the value has a message property, message is it.
ErrorObject(m) == [isError |-> TRUE, hasMessage |-> TRUE, message |-> m]

PlainObject(m) == [isError |-> FALSE, hasMessage |-> TRUE, message |-> m]

BareValue == [isError |-> FALSE, hasMessage |-> FALSE, message |-> ""]

ThrownValues ==
  { ErrorObject("rate limit exceeded"), ErrorObject(""),
    PlainObject("rate limit exceeded"), BareValue }

Resolved(ot) == [kind |-> "resolved", output_text |-> ot, thrown |-> BareValue]

Rejected(e) == [kind |-> "rejected", output_text |-> NoText, thrown |-> e]

UpstreamOutcomes ==
  { Resolved(ot) : ot \in OutputTexts } \cup { Rejected(e) : e \in ThrownValues }

Pending == [kind |-> "pending", output_text |-> NoText, thrown |-> BareValue]

(***************************************************************************)
(* The o3-search handler, src/index.ts lines 47-82.                        *)
(***************************************************************************)
FallbackText == "No response text available."

UnknownError == "Unknown error occurred"

\* JavaScript truthiness of response.output_text: undefined and "" are falsy.
Truthy(ot) == ot.present /\ ot.text # ""

\* line 67: response.output_text || "No response text available."
SuccessText_Nullish(ot) == IF ot.present THEN ot.text ELSE FallbackText

SuccessText_Inverted(ot) == IF Truthy(ot) THEN FallbackText ELSE ot.text

SuccessText(ot) == IF Truthy(ot) THEN ot.text ELSE FallbackText

\* line 77: `Error: ${error instanceof Error ? error.message : "Unknown error occurred"}`
ErrorText_AnyMessage(e) ==
  "Error: " \o (IF e.hasMessage THEN e.message ELSE UnknownError)

ErrorText(e) ==
  "Error: " \o (IF e.isError THEN e.message ELSE UnknownError)

TextContent(t) == [type |-> "text", text |-> t]

Returned(t) == [kind |-> "returned", content |-> << TextContent(t) >>]

Threw(e) == [kind |-> "threw", content |-> << >>]

NoResult == [kind |-> "none", content |-> << >>]

\* The whole async arrow function, from the settled upstream call to the
\* value the handler's promise settles with.
Handler_NoCatch(up) ==
  IF up.kind = "resolved"
    THEN Returned(SuccessText(up.output_text))
    ELSE Threw(up.thrown)

Handler(up) ==
  IF up.kind = "resolved"
    THEN Returned(SuccessText(up.output_text))
    ELSE Returned(ErrorText(up.thrown))

(***************************************************************************)
(* The lifecycle, src/index.ts lines 85-141.                               *)
(***************************************************************************)
TimeoutReason == "timeout"

\* The events main() registers a listener for (lines 110-135); each maps to
\* the reason string its listener passes to shutdown().
TriggerEvents ==
  { "SIGTERM", "SIGINT", "stdin end", "stdin error",
    "uncaught exception", "unhandled rejection" }

Reasons == TriggerEvents \cup {TimeoutReason}

\* line 99: clearTimeout(timeoutHandle)
ClearTimeout(t) == IF t = "armed" THEN "cleared" ELSE t

\* line 102 / line 105: the exit code after the awaited close settled
ExitCodeAfterClose_AlwaysZero(closeOk) == 0

ExitCodeAfterClose(closeOk) == IF closeOk THEN 0 ELSE 1

\* lines 97-101: shutdown(signal) up to its await: log, disarm the timer,
\* invoke transport.close().  t is the timer's state on entry.
Shutdown_NoClear(signal, t) ==
  /\ timer' = t
  /\ shutdowns' = Append(shutdowns,
       [signal |-> signal, timerAtClose |-> t, close |-> "pending"])

\* lines 97-101 with the timer left alone for one of the reasons.
Shutdown_ReasonDependent(signal, t) ==
  LET disarmed == IF signal = "SIGINT" THEN t ELSE ClearTimeout(t) IN
  /\ timer' = disarmed
  /\ shutdowns' = Append(shutdowns,
       [signal |-> signal, timerAtClose |-> disarmed, close |-> "pending"])

Shutdown(signal, t) ==
  LET disarmed == ClearTimeout(t) IN
  /\ timer' = disarmed
  /\ shutdowns' = Append(shutdowns,
       [signal |-> signal, timerAtClose |-> disarmed, close |-> "pending"])

TypeOK ==
  /\ mainPc \in {"connecting", "registered", "failed"}
  /\ timer \in {"unset", "armed", "cleared", "fired"}
  /\ listeners \subseteq TriggerEvents
  /\ Len(shutdowns) <= MaxShutdowns
  /\ \A k \in 1..Len(shutdowns) :
       /\ shutdowns[k].signal \in Reasons
       /\ shutdowns[k].close \in {"pending", "ok", "failed"}
  /\ exited \in BOOLEAN
  /\ exitCode \in {0, 1}
  /\ exitedBy \in 0..MaxShutdowns
  /\ Len(calls) <= MaxCalls
  /\ \A i \in 1..Len(calls) :
       /\ calls[i].input \in Inputs
       /\ calls[i].upstream \in UpstreamOutcomes \cup {Pending}
       /\ calls[i].issued \in 0..1
       /\ calls[i].responded \in 0..1

\* main() with the listeners registered before `await server.connect`.
Init_ListenersEarly ==
  /\ mainPc = "connecting"
  /\ timer = "unset"
  /\ listeners = TriggerEvents
  /\ shutdowns = << >>
  /\ exited = FALSE
  /\ exitCode = 0
  /\ exitedBy = 0
  /\ calls = << >>

\* main() with the setTimeout call before `await server.connect`.
Init_TimerEarly ==
  /\ mainPc = "connecting"
  /\ timer = "armed"
  /\ listeners = {}
  /\ shutdowns = << >>
  /\ exited = FALSE
  /\ exitCode = 0
  /\ exitedBy = 0
  /\ calls = << >>

Init ==
  /\ mainPc = "connecting"
  /\ timer = "unset"
  /\ listeners = {}
  /\ shutdowns = << >>
  /\ exited = FALSE
  /\ exitCode = 0
  /\ exitedBy = 0
  /\ calls = << >>

\* lines 87-135 without the setTimeout call.
ConnectResolves_NoTimer ==
  /\ mainPc = "connecting" /\ ~exited
  /\ mainPc' = "registered"
  /\ listeners' = TriggerEvents
  /\ UNCHANGED <<timer, shutdowns, exited, exitCode, exitedBy, calls>>

\* lines 87-135: server.connect resolved; main() runs to its end: the timer
\* is armed and the listeners are registered.
ConnectResolves ==
  /\ mainPc = "connecting" /\ ~exited
  /\ mainPc' = "registered"
  /\ timer' = "armed"
  /\ listeners' = TriggerEvents
  /\ UNCHANGED <<shutdowns, exited, exitCode, exitedBy, calls>>

\* lines 138-141 with a catch that logs and does not exit.
ConnectRejects_LogOnly ==
  /\ mainPc = "connecting" /\ ~exited
  /\ mainPc' = "failed"
  /\ UNCHANGED <<timer, listeners, shutdowns, exited, exitCode, exitedBy, calls>>

\* lines 87, 138-141: server.connect rejected; main() rejects and its catch
\* exits with 1.
ConnectRejects ==
  /\ mainPc = "connecting" /\ ~exited
  /\ mainPc' = "failed"
  /\ exited' = TRUE
  /\ exitCode' = 1
  /\ exitedBy' = 0
  /\ UNCHANGED <<timer, listeners, shutdowns, calls>>

\* lines 47-61: the transport dispatches a tool call; the handler issues the
\* upstream call and suspends.  A closed transport reads no more requests.
ToolCall(input) ==
  /\ mainPc = "registered" /\ ~exited
  /\ Len(shutdowns) = 0
  /\ Len(calls) < MaxCalls
  /\ calls' = Append(calls,
       [input |-> input, issued |-> 1, upstream |-> Pending,
        result |-> NoResult, responded |-> 0])
  /\ UNCHANGED lifecycleVars

\* The number of ToolResponses a settled handler promise hands to the
\* protocol layer: one when it fulfils, none when it rejects.
Responses(result) == IF result.kind = "returned" THEN 1 ELSE 0

\* lines 49, 63-81 with a catch block that gives up the process.
UpstreamSettles_ExitOnFault(i, up) ==
  /\ ~exited
  /\ i \in 1..Len(calls)
  /\ calls[i].upstream = Pending
  /\ calls' = [calls EXCEPT ![i].upstream = up,
                            ![i].result = Handler(up),
                            ![i].responded = @ + Responses(Handler(up))]
  /\ IF up.kind = "rejected"
       THEN /\ exited' = TRUE
            /\ exitCode' = 1
            /\ UNCHANGED <<mainPc, timer, listeners, shutdowns, exitedBy>>
       ELSE UNCHANGED lifecycleVars

\* lines 49, 63-81 with the response kept in one module-level variable that
\* every invocation writes and returns.
UpstreamSettles_SharedResponse(i, up) ==
  /\ ~exited
  /\ i \in 1..Len(calls)
  /\ calls[i].upstream = Pending
  /\ calls' = [j \in 1..Len(calls) |->
                 IF j = i
                   THEN [calls[j] EXCEPT !.upstream = up,
                                         !.result = Handler(up),
                                         !.responded = @ + Responses(Handler(up))]
                 ELSE IF calls[j].upstream # Pending
                   THEN [calls[j] EXCEPT !.result = Handler(up)]
                 ELSE calls[j]]
  /\ UNCHANGED lifecycleVars

\* lines 49, 63-81 with one more upstream call after a rejection or a reply
\* without text.
UpstreamSettles_Retry(i, up) ==
  /\ ~exited
  /\ i \in 1..Len(calls)
  /\ calls[i].upstream = Pending
  /\ IF calls[i].issued < 2 /\ (up.kind = "rejected" \/ ~Truthy(up.output_text))
       THEN calls' = [calls EXCEPT ![i].issued = @ + 1]
       ELSE calls' = [calls EXCEPT ![i].upstream = up,
                                   ![i].result = Handler(up),
                                   ![i].responded = @ + Responses(Handler(up))]
  /\ UNCHANGED lifecycleVars

\* lines 49, 63-81: the upstream call of invocation i settles (a promise
\* settles once) and the handler runs to its return.
UpstreamSettles(i, up) ==
  /\ ~exited
  /\ i \in 1..Len(calls)
  /\ calls[i].upstream = Pending
  /\ calls' = [calls EXCEPT ![i].upstream = up,
                            ![i].result = Handler(up),
                            ![i].responded = @ + Responses(Handler(up))]
  /\ UNCHANGED lifecycleVars

\* lines 110-135 with shutdown guarded by an "already shutting down" flag.
Trigger_Guarded(event) ==
  /\ ~exited
  /\ event \in listeners
  /\ Len(shutdowns) = 0
  /\ Shutdown(event, timer)
  /\ UNCHANGED <<mainPc, listeners, exited, exitCode, exitedBy, calls>>

\* lines 110-135 with a shutdown that first waits for the in-flight
\* handler invocations.
Trigger_DrainsCalls(event) ==
  /\ ~exited
  /\ event \in listeners
  /\ Len(shutdowns) < MaxShutdowns
  /\ \A i \in 1..Len(calls) : calls[i].upstream # Pending
  /\ Shutdown(event, timer)
  /\ UNCHANGED <<mainPc, listeners, exited, exitCode, exitedBy, calls>>

\* lines 110-135: a registered event fires; its listener calls shutdown.
Trigger(event) ==
  /\ ~exited
  /\ event \in listeners
  /\ Len(shutdowns) < MaxShutdowns
  /\ Shutdown(event, timer)
  /\ UNCHANGED <<mainPc, listeners, exited, exitCode, exitedBy, calls>>

\* lines 91-94: the armed timer elapses; its callback calls shutdown("timeout").
TimerElapses ==
  /\ ~exited
  /\ timer = "armed"
  /\ Len(shutdowns) < MaxShutdowns
  /\ Shutdown(TimeoutReason, "fired")
  /\ UNCHANGED <<mainPc, listeners, exited, exitCode, exitedBy, calls>>

\* lines 101-106: the close awaited by invocation k settles; the
\* invocation exits the process.
CloseSettles(k, closeOk) ==
  /\ ~exited
  /\ k \in 1..Len(shutdowns)
  /\ shutdowns[k].close = "pending"
  /\ shutdowns' = [shutdowns EXCEPT ![k].close = IF closeOk THEN "ok" ELSE "failed"]
  /\ exited' = TRUE
  /\ exitCode' = ExitCodeAfterClose(closeOk)
  /\ exitedBy' = k
  /\ UNCHANGED <<mainPc, timer, listeners, calls>>

Next ==
  \/ ConnectResolves
  \/ ConnectRejects
  \/ \E input \in Inputs : ToolCall(input)
  \/ \E i \in 1..MaxCalls, up \in UpstreamOutcomes : UpstreamSettles(i, up)
  \/ \E event \in TriggerEvents : Trigger(event)
  \/ TimerElapses
  \/ \E k \in 1..MaxShutdowns, closeOk \in BOOLEAN : CloseSettles(k, closeOk)

Spec == Init /\ [][Next]_vars

\* The event loop runs every callback that is ready: an armed timer elapses
\* after processTimeout ms, and a settled close resumes the shutdown that
\* awaits it.  Signals, stream events and upstream replies are the
\* environment's and carry no fairness.
FairSpec ==
  /\ Spec
  /\ WF_vars(TimerElapses)
  /\ WF_vars(\E k \in 1..MaxShutdowns, closeOk \in BOOLEAN : CloseSettles(k, closeOk))

\* The lifecycle states of the design, read off the program's state.
Lifecycle ==
  IF exited THEN "terminated"
  ELSE IF Len(shutdowns) > 0 THEN "shutting_down"
  ELSE IF mainPc = "registered" THEN "running"
  ELSE "starting"

Settled(i) == calls[i].upstream # Pending

Body(i) == calls[i].result.content[1].text

RejectedCall(i) == Settled(i) /\ calls[i].upstream.kind = "rejected"

ResolvedCall(i) == Settled(i) /\ calls[i].upstream.kind = "resolved"

(***************************************************************************)
(* C1: whatever the upstream call does, a settled handler invocation has   *)
(* returned (not thrown) a response of exactly one content item of type    *)
(* "text" with a non-empty body.                                           *)
(***************************************************************************)
C1_AlwaysOneTextItem ==
  \A i \in 1..Len(calls) :
    Settled(i) =>
      /\ calls[i].result.kind = "returned"
      /\ Len(calls[i].result.content) = 1
      /\ calls[i].result.content[1].type = "text"
      /\ Body(i) # ""

C1_Witness ==
  \E i, j \in 1..Len(calls) :
    /\ RejectedCall(i) /\ calls[i].upstream.thrown = BareValue
    /\ calls[i].result.kind = "returned"
    /\ ResolvedCall(j) /\ calls[j].upstream.output_text = NoText
    /\ calls[j].result.kind = "returned"

(***************************************************************************)
(* C2 as stated: a rejection with any value that carries a message M gives *)
(* the body "Error: " + M, and a value without a message gives             *)
(* "Error: Unknown error occurred".                                        *)
(***************************************************************************)
C2_AnyThrownMessage ==
  \A i \in 1..Len(calls) :
    RejectedCall(i) =>
      LET e == calls[i].upstream.thrown IN
      /\ e.hasMessage => Body(i) = "Error: " \o e.message
      /\ ~e.hasMessage => Body(i) = "Error: Unknown error occurred"

(***************************************************************************)
(* C2 amended: a rejection with an Error object whose message is M (the    *)
(* empty M included) gives the body "Error: " + M; every other thrown      *)
(* value, with or without a message property, gives                        *)
(* "Error: Unknown error occurred".                                        *)
(***************************************************************************)
C2_ErrorObjectMessage ==
  \A i \in 1..Len(calls) :
    RejectedCall(i) =>
      LET e == calls[i].upstream.thrown IN
      /\ e.isError => Body(i) = "Error: " \o e.message
      /\ ~e.isError => Body(i) = "Error: Unknown error occurred"

C2_Witness ==
  \E i, j \in 1..Len(calls) :
    /\ RejectedCall(i) /\ calls[i].upstream.thrown = PlainObject("rate limit exceeded")
    /\ Body(i) = "Error: Unknown error occurred"
    /\ RejectedCall(j) /\ calls[j].upstream.thrown = ErrorObject("rate limit exceeded")
    /\ Body(j) = "Error: rate limit exceeded"

(***************************************************************************)
(* C3 as stated: a reply with output text T gives the body T, for every T. *)
(***************************************************************************)
C3_EveryText ==
  \A i \in 1..Len(calls) :
    (ResolvedCall(i) /\ calls[i].upstream.output_text.present) =>
      Body(i) = calls[i].upstream.output_text.text

(***************************************************************************)
(* C3 amended: a reply with a non-empty output text T gives the body T.    *)
(***************************************************************************)
C3_NonEmptyText ==
  \A i \in 1..Len(calls) :
    ( /\ ResolvedCall(i)
      /\ calls[i].upstream.output_text.present
      /\ calls[i].upstream.output_text.text # "" ) =>
      Body(i) = calls[i].upstream.output_text.text

C3_Witness ==
  \E i \in 1..Len(calls) :
    /\ ResolvedCall(i)
    /\ calls[i].upstream.output_text = Text("Paris.")
    /\ Body(i) = "Paris."

(***************************************************************************)
(* C4: a reply with no output text, absent or empty, gives the body        *)
(* "No response text available.".                                          *)
(***************************************************************************)
C4_FallbackWhenNoText ==
  \A i \in 1..Len(calls) :
    ( /\ ResolvedCall(i)
      /\ \/ ~calls[i].upstream.output_text.present
         \/ calls[i].upstream.output_text.text = "" ) =>
      Body(i) = "No response text available."

C4_Witness ==
  \E i, j \in 1..Len(calls) :
    /\ ResolvedCall(i) /\ calls[i].upstream.output_text = NoText
    /\ ResolvedCall(j) /\ calls[j].upstream.output_text = Text("")
    /\ Body(i) = FallbackText /\ Body(j) = FallbackText

(***************************************************************************)
(* C5: when the process has exited through the shutdown routine, the exit  *)
(* code is 0 if the close awaited by the exiting invocation succeeded and  *)
(* 1 if it failed; no successful close goes with exit 1 and no failed      *)
(* close with exit 0, however many shutdowns were started.                 *)
(***************************************************************************)
C5_ExitCodeFollowsClose ==
  /\ (exited /\ exitedBy > 0) =>
       /\ exitedBy \in 1..Len(shutdowns)
       /\ shutdowns[exitedBy].close \in {"ok", "failed"}
       /\ shutdowns[exitedBy].close = "ok" => exitCode = 0
       /\ shutdowns[exitedBy].close = "failed" => exitCode = 1
  /\ \A k \in 1..Len(shutdowns) :
       /\ shutdowns[k].close = "ok" => (exited /\ exitCode = 0)
       /\ shutdowns[k].close = "failed" => (exited /\ exitCode = 1)

C5_Witness ==
  /\ exited /\ exitedBy = 2 /\ exitCode = 1
  /\ Len(shutdowns) >= 2
  /\ shutdowns[1].close = "pending"
  /\ shutdowns[2].close = "failed"

(***************************************************************************)
(* C6: once the shutdown routine has been invoked the timer is not armed,  *)
(* it was already disarmed when each transport close was invoked, and a    *)
(* timer that was cleared or has fired is never armed again (so it cannot  *)
(* elapse and start a shutdown of its own).                                *)
(***************************************************************************)
C6_TimerDisarmedFirst ==
  /\ [](Len(shutdowns) > 0 =>
         /\ timer # "armed"
         /\ ~ENABLED TimerElapses
         /\ \A k \in 1..Len(shutdowns) : shutdowns[k].timerAtClose # "armed")
  /\ [][(timer \in {"cleared", "fired"}) => (timer' # "armed")]_vars
  /\ [][Len(shutdowns) > 0 =>
          (Len(shutdowns') > Len(shutdowns) =>
             shutdowns'[Len(shutdowns')].signal # TimeoutReason)]_vars

C6_Witness ==
  /\ Len(shutdowns) = 2
  /\ shutdowns[1].signal = "SIGTERM"
  /\ shutdowns[1].timerAtClose = "cleared"
  /\ shutdowns[2].signal = "stdin end"
  /\ timer = "cleared"
  /\ ~exited

(***************************************************************************)
(* C7 as stated: every dispatched request has exactly one response, also   *)
(* in an execution that a shutdown ends: when the process has exited, no   *)
(* request is left with zero responses.                                    *)
(***************************************************************************)
C7_OneResponseAtExit ==
  exited => \A i \in 1..Len(calls) : calls[i].responded = 1

(***************************************************************************)
(* C7 amended: no request ever has more than one response; a request whose *)
(* upstream call has settled has exactly one, and a request whose upstream *)
(* call is still pending (also when the process exits, which does not wait *)
(* for it) has none.                                                       *)
(***************************************************************************)
C7_OneResponsePerSettledCall ==
  \A i \in 1..Len(calls) :
    /\ calls[i].responded <= 1
    /\ Settled(i) => calls[i].responded = 1
    /\ ~Settled(i) => calls[i].responded = 0

C7_Witness ==
  /\ exited /\ exitedBy > 0
  /\ Len(calls) = 2
  /\ Settled(1) /\ calls[1].responded = 1
  /\ ~Settled(2) /\ calls[2].responded = 0

(***************************************************************************)
(* C8: a step in which an upstream call rejects changes nothing of the     *)
(* lifecycle (no shutdown is invoked, the process does not exit), and the  *)
(* lifecycle leaves running only by a step that invokes the shutdown       *)
(* routine for the timer or one of the registered events.                  *)
(***************************************************************************)
C8_RequestFaultNotFatal ==
  /\ [][(\E i \in 1..Len(calls) :
           /\ calls[i].upstream = Pending
           /\ calls'[i].upstream.kind = "rejected")
        => UNCHANGED lifecycleVars]_vars
  /\ [][(Lifecycle = "running" /\ Lifecycle' # "running") =>
          /\ calls' = calls
          /\ ~exited'
          /\ Len(shutdowns') = 1
          /\ shutdowns'[1].signal \in TriggerEvents \cup {"timeout"}]_vars

C8_Witness ==
  /\ Lifecycle = "running"
  /\ Len(calls) = 2
  /\ RejectedCall(1) /\ calls[1].upstream.thrown = ErrorObject("rate limit exceeded")
  /\ RejectedCall(2)

OnlyTimeoutShutdown ==
  Len(shutdowns) = 1 /\ shutdowns[1].signal = TimeoutReason

(***************************************************************************)
(* C9 as stated, its last part: when the timer's shutdown is the only one, *)
(* the process exits 0.                                                    *)
(***************************************************************************)
C9_TimeoutExitsZero ==
  (exited /\ OnlyTimeoutShutdown) => exitCode = 0

(***************************************************************************)
(* C9 amended: once running, the process eventually terminates, whatever   *)
(* calls are in flight and whatever triggers fire; the timer's elapse      *)
(* invokes the shutdown routine with reason "timeout"; and when that is    *)
(* the only shutdown the process exits 0 if its transport close succeeds   *)
(* and 1 if it fails.                                                      *)
(***************************************************************************)
C9_RuntimeCapEnforced ==
  /\ (Lifecycle = "running") ~> (Lifecycle = "terminated")
  /\ [][(timer = "armed" /\ timer' = "fired") =>
          /\ Len(shutdowns') = Len(shutdowns) + 1
          /\ shutdowns'[Len(shutdowns')].signal = "timeout"]_vars
  /\ []((exited /\ OnlyTimeoutShutdown) =>
          /\ exitedBy = 1
          /\ shutdowns[1].close = "ok" => exitCode = 0
          /\ shutdowns[1].close = "failed" => exitCode = 1)

C9_Witness ==
  /\ exited /\ OnlyTimeoutShutdown /\ exitCode = 0
  /\ Len(calls) = 2
  /\ ~Settled(1)
  /\ Settled(2)

(***************************************************************************)
(* C10: when the connect fails at startup the process has exited with code *)
(* 1 by main's catch, in that same step: the shutdown routine and the      *)
(* transport close were never invoked, the timer was never armed and no    *)
(* event has a listener.                                                   *)
(***************************************************************************)
C10_StartupFaultExitsOne ==
  mainPc = "failed" =>
    /\ exited
    /\ exitCode = 1
    /\ exitedBy = 0
    /\ Len(shutdowns) = 0
    /\ timer = "unset"
    /\ listeners = {}
    /\ ~ENABLED TimerElapses
    /\ \A event \in TriggerEvents : ~ENABLED Trigger(event)

C10_Witness ==
  mainPc = "failed" /\ exited /\ exitCode = 1 /\ Len(calls) = 0

SomeCloseSettled ==
  \E k \in 1..Len(shutdowns) : shutdowns[k].close \in {"ok", "failed"}

(***************************************************************************)
(* C11 as stated, its third part: terminated is entered only after a       *)
(* transport close has completed.                                          *)
(***************************************************************************)
C11_TerminatedOnlyAfterClose ==
  Lifecycle = "terminated" => SomeCloseSettled

(***************************************************************************)
(* C11 amended: the lifecycle changes only along starting -> running (the  *)
(* connect has completed), running -> shutting_down (the shutdown routine  *)
(* is invoked for the timer or one of the registered events),              *)
(* shutting_down -> terminated (a transport close has settled, either      *)
(* way), and starting -> terminated (the connect failed: exit 1 with no    *)
(* close); no state is entered again.                                      *)
(***************************************************************************)
C11_LifecycleForwardOnly ==
  [][(Lifecycle' # Lifecycle) =>
      \/ /\ Lifecycle = "starting" /\ Lifecycle' = "running"
         /\ mainPc = "connecting" /\ mainPc' = "registered"
      \/ /\ Lifecycle = "running" /\ Lifecycle' = "shutting_down"
         /\ Len(shutdowns') = 1
         /\ shutdowns'[1].signal \in
              { "timeout", "SIGTERM", "SIGINT", "stdin end", "stdin error",
                "uncaught exception", "unhandled rejection" }
         /\ shutdowns'[1].close = "pending"
      \/ /\ Lifecycle = "shutting_down" /\ Lifecycle' = "terminated"
         /\ ~SomeCloseSettled /\ SomeCloseSettled'
      \/ /\ Lifecycle = "starting" /\ Lifecycle' = "terminated"
         /\ mainPc' = "failed" /\ exitCode' = 1
         /\ Len(shutdowns') = 0]_vars

C11_Witness ==
  /\ Lifecycle = "terminated"
  /\ mainPc = "registered"
  /\ Len(shutdowns) = 1
  /\ shutdowns[1].signal = "stdin error"
  /\ shutdowns[1].close = "failed"

TimerStates == {"unset", "armed", "cleared", "fired"}

\* What an invocation of the shutdown routine does, the reason left out:
\* it leaves the timer in state t, the timer was in state t when it invoked
\* the transport close, and it now awaits that close.
ShutdownDoes(t) ==
  /\ Len(shutdowns') = Len(shutdowns) + 1
  /\ timer' = t
  /\ shutdowns'[Len(shutdowns')].timerAtClose = t
  /\ shutdowns'[Len(shutdowns')].close = "pending"
  /\ \A k \in 1..Len(shutdowns) : shutdowns'[k] = shutdowns[k]

(***************************************************************************)
(* C12: from one and the same state the shutdown routine does the same for *)
(* every reason: what the listener of SIGTERM can do to the timer and the  *)
(* transport, the listener of every other event can do, and the other way  *)
(* round, and so can the routine called with "timeout"; and two pending    *)
(* invocations started for different reasons exit with the same code for   *)
(* the same outcome of their close, 0 for a success and 1 for a failure.   *)
(***************************************************************************)
C12_ShutdownIgnoresReason ==
  /\ \A t \in TimerStates :
       LET sigterm == ENABLED (Trigger("SIGTERM") /\ ShutdownDoes(t))
           routine == ENABLED (Shutdown("SIGTERM", timer) /\ ShutdownDoes(t))
       IN /\ \A e \in TriggerEvents \ {"SIGTERM"} :
               sigterm <=> (ENABLED (Trigger(e) /\ ShutdownDoes(t)))
          /\ routine <=> (ENABLED (Shutdown("timeout", timer) /\ ShutdownDoes(t)))
  /\ \A k1, k2 \in 1..Len(shutdowns) :
       (shutdowns[k1].close = "pending" /\ shutdowns[k2].close = "pending" /\ k1 < k2) =>
         \A closeOk \in BOOLEAN :
           LET code == IF closeOk THEN 0 ELSE 1 IN
           /\ ENABLED CloseSettles(k1, closeOk) <=> ENABLED CloseSettles(k2, closeOk)
           /\ ENABLED CloseSettles(k1, closeOk) =>
                /\ ENABLED (CloseSettles(k1, closeOk) /\ exitCode' = code)
                /\ ENABLED (CloseSettles(k2, closeOk) /\ exitCode' = code)
                /\ ~ENABLED (CloseSettles(k1, closeOk) /\ exitCode' # code)
                /\ ~ENABLED (CloseSettles(k2, closeOk) /\ exitCode' # code)

C12_Witness ==
  /\ ~exited
  /\ Len(shutdowns) = 2
  /\ shutdowns[1].signal = "SIGINT"
  /\ shutdowns[2].signal = "uncaught exception"
  /\ shutdowns[1].close = "pending" /\ shutdowns[2].close = "pending"
  /\ shutdowns[1].timerAtClose = shutdowns[2].timerAtClose
  /\ ENABLED (CloseSettles(1, TRUE) /\ exitCode' = 0)
  /\ ENABLED (CloseSettles(2, TRUE) /\ exitCode' = 0)

FiredReasons == { shutdowns[k].signal : k \in 1..Len(shutdowns) }

PendingCloses == { k \in 1..Len(shutdowns) : shutdowns[k].close = "pending" }

(***************************************************************************)
(* C13: while a shutdown is awaiting its transport close, every other      *)
(* registered event can still fire and its listener runs the shutdown      *)
(* routine again: a further transport close is invoked while the earlier   *)
(* ones are still pending.  Only the timer cannot: it was disarmed.  (The  *)
(* model stops counting at MaxShutdowns invocations.)                      *)
(***************************************************************************)
C13_ShutdownReentrant ==
  (Lifecycle = "shutting_down" /\ Len(shutdowns) < MaxShutdowns) =>
    /\ ~ENABLED TimerElapses
    /\ \A e \in TriggerEvents \ FiredReasons :
         ENABLED ( /\ Trigger(e)
                   /\ Len(shutdowns') = Len(shutdowns) + 1
                   /\ shutdowns'[Len(shutdowns')].signal = e
                   /\ shutdowns'[Len(shutdowns')].close = "pending"
                   /\ \A k \in 1..Len(shutdowns) : shutdowns'[k].close = "pending" )

C13_Witness ==
  /\ Lifecycle = "shutting_down"
  /\ Len(shutdowns) = 2
  /\ shutdowns[1].signal = "timeout"
  /\ shutdowns[2].signal = "SIGTERM"
  /\ PendingCloses = {1, 2}
  /\ timer = "fired"

InFlight == { i \in 1..Len(calls) : calls[i].upstream = Pending }

(***************************************************************************)
(* C14: with handler invocations in flight, every registered event can     *)
(* fire at once and its listener invokes the transport close in that same  *)
(* step, leaving the invocations as they are; no step that starts a        *)
(* shutdown changes an invocation (none is cancelled); and an invocation   *)
(* in flight while the lifecycle is shutting_down can still complete, with *)
(* any upstream outcome.                                                   *)
(***************************************************************************)
C14_ShutdownIgnoresInFlightCalls ==
  /\ []((Lifecycle = "running" /\ InFlight # {}) =>
          \A e \in TriggerEvents :
            ENABLED ( /\ Trigger(e)
                      /\ calls' = calls
                      /\ Len(shutdowns') = 1
                      /\ shutdowns'[1].close = "pending" ))
  /\ [][(Len(shutdowns') > Len(shutdowns)) => (calls' = calls)]_vars
  /\ []((Lifecycle = "shutting_down") =>
          \A i \in InFlight, up \in UpstreamOutcomes :
            ENABLED ( /\ UpstreamSettles(i, up)
                      /\ calls'[i].upstream = up
                      /\ calls'[i].responded = 1 ))

C14_Witness ==
  /\ Lifecycle = "shutting_down"
  /\ shutdowns[1].signal = "unhandled rejection"
  /\ Len(calls) = 2
  /\ InFlight = {1}
  /\ calls[2].upstream = Resolved(Text("Paris."))
  /\ ENABLED (UpstreamSettles(1, Rejected(ErrorObject(""))) /\ calls'[1].responded = 1)

(***************************************************************************)
(* C15: the invocations in flight can complete in any order; a step in     *)
(* which one invocation completes changes that invocation only (no other   *)
(* invocation, not the timer, nothing of the lifecycle); a completed       *)
(* invocation is never changed again, and no lifecycle step changes an     *)
(* invocation; so two invocations with the same upstream outcome have the  *)
(* same response, whatever else happened around them.                      *)
(***************************************************************************)
C15_InvocationsIndependent ==
  /\ [](~exited =>
          \A i \in InFlight :
            ENABLED (UpstreamSettles(i, Resolved(Text("Paris."))) /\ calls'[i].responded = 1))
  /\ [](\A i, j \in 1..Len(calls) :
          (Settled(i) /\ Settled(j) /\ calls[i].upstream = calls[j].upstream) =>
            calls[i].result = calls[j].result)
  /\ [][\A i \in 1..Len(calls) :
          (calls[i].upstream = Pending /\ calls'[i].upstream # Pending) =>
            /\ Len(calls') = Len(calls)
            /\ \A j \in 1..Len(calls) : (j # i) => (calls'[j] = calls[j])
            /\ UNCHANGED lifecycleVars]_vars
  /\ [][\A i \in 1..Len(calls) : Settled(i) => (calls'[i] = calls[i])]_vars
  /\ [][(lifecycleVars' # lifecycleVars) => (calls' = calls)]_vars

C15_Witness ==
  /\ Lifecycle = "running"
  /\ Len(calls) = 2
  /\ InFlight = {1}
  /\ calls[2].upstream = Rejected(ErrorObject("rate limit exceeded"))
  /\ Body(2) = "Error: rate limit exceeded"
  /\ timer = "armed"

(***************************************************************************)
(* C16: every handler invocation has issued exactly one upstream call,     *)
(* while it is in flight and after it completed, also after a rejection    *)
(* and after a reply without text.                                         *)
(***************************************************************************)
C16_OneUpstreamCall ==
  \A i \in 1..Len(calls) : calls[i].issued = 1

C16_Witness ==
  /\ Len(calls) = 2
  /\ calls[1].upstream = Rejected(BareValue) /\ calls[1].issued = 1
  /\ calls[2].upstream = Resolved(Text("")) /\ calls[2].issued = 1

(***************************************************************************)
(* C17: while the lifecycle is starting (the connect has not completed)    *)
(* the timer is not set, no event has a listener, neither the timer nor    *)
(* any event can invoke the shutdown routine, and no shutdown or transport *)
(* close has been invoked; the timer is armed and the listeners are        *)
(* registered in the step in which the connect completes.                  *)
(***************************************************************************)
C17_NoTriggerWhileStarting ==
  /\ [](Lifecycle = "starting" =>
          /\ timer = "unset"
          /\ listeners = {}
          /\ Len(shutdowns) = 0
          /\ ~ENABLED TimerElapses
          /\ \A e \in TriggerEvents : ~ENABLED Trigger(e)
          /\ \A k \in 1..MaxShutdowns, closeOk \in BOOLEAN : ~ENABLED CloseSettles(k, closeOk))
  /\ [][((timer' = "armed" /\ timer # "armed") \/ (listeners' # listeners)) =>
          /\ mainPc = "connecting" /\ mainPc' = "registered"
          /\ timer' = "armed"
          /\ listeners' = { "SIGTERM", "SIGINT", "stdin end", "stdin error",
                             "uncaught exception", "unhandled rejection" }]_vars

C17_Witness ==
  /\ Lifecycle = "starting"
  /\ mainPc = "connecting"
  /\ ENABLED ConnectResolves
  /\ ENABLED ConnectRejects

====
